---- MODULE Spec2Model ----
(***************************************************************************)
(* Model of markwbennett/summarize-files.                                  *)
(*                                                                         *)
(*   - PDFProcessor.create_pdf_chunks / _create_pdf_chunk                  *)
(*     (src/summarize_pdfs.py): the chunk planner.                         *)
(*   - test_pypdf2_extraction (src/analyze_problematic_page.py): one       *)
(*     extraction attempt run on a thread pool under a deadline.           *)
(*                                                                         *)
(*   - ChunkAssembler, TieredExtractor and CircuitBreaker as the           *)
(*     specification describes them.                                       *)
(*   - PDFProcessor.concatenate_pdfs, the chunk analysis loop of           *)
(*     process_pdfs, and the files of the folder over consecutive runs.    *)
(*   - analyze_briefs_with_claude (src/unnamed/part_000): the mapping of   *)
(*     an exception to the value returned.                                 *)
(*                                                                         *)
(* The variable prog says which entry point a behaviour runs; the          *)
(* variables of the other entry points keep their initial values.          *)
(***************************************************************************)
EXTENDS Integers, Sequences, FiniteSets, TLC

VARIABLES
    prog,           \* the entry point this behaviour runs
    \* ---- create_pdf_chunks ----
    total_pages,    \* count_pages(pdf_path)
    max_pages,      \* parameter max_pages
    overlap,        \* parameter overlap
    start_page,     \* local start_page
    chunk_num,      \* local chunk_num
    chunks,         \* local chunks: the plans emitted so far, in order
    ppc,            \* position in create_pdf_chunks
    \* ---- test_pypdf2_extraction ----
    num_pages,      \* len(reader.pages) of the analysed document
    page_num,       \* parameter page_num
    behaviour,      \* what page.extract_text() does on this page
    cpc,            \* position of the caller in test_pypdf2_extraction
    running,        \* calls whose extract_with_pypdf2 is still executing
    future,         \* the value the submitted future holds once it is done
    result,         \* the result dict of the current call
    calls,          \* number of calls made so far (id of the current call)
    \* ---- ChunkAssembler, TieredExtractor, CircuitBreaker ----
    document,       \* metadata of the document the classifier judges
    ocrAvailable,   \* whether the OCR capability is present
    plans,          \* the ChunkPlans to assemble, in plan order
    chunkId,        \* index in plans of the chunk being assembled
    page,           \* global index of the page being extracted
    state,          \* state of the per-page extractor
    attempts,       \* the ExtractionAttempts made on the current page
    pageText,       \* the final text of the current page
    circuit,        \* CircuitState: failure count per strategy, this chunk
    text,           \* text of the chunk assembled so far
    pageFailures,   \* failure set of the chunk being assembled
    strategyUsedPerPage,  \* pages of this chunk that yielded text, with strategy
    tripped,        \* history: the <<chunk, strategy>> pairs ever disabled
    results,        \* the ChunkResults produced so far
    \* ---- concatenate_pdfs ----
    pdf_files,      \* parameter pdf_files: the documents, in load order
    file_index,     \* position of `for pdf_file in pdf_files`
    merger,         \* the pages the PdfMerger holds, in order
    concatenated,   \* the document concatenate_pdfs returns
    catpc,          \* position in concatenate_pdfs
    reported,       \* the pages the messages of concatenate_pdfs name as left out
    \* ---- process_pdfs: the files of the folder over consecutive runs ----
    folder,         \* names of the files in the PDF folder
    individual_only,\* self.individual_only of the current run
    fpc,            \* position of the current run in process_pdfs
    original_pdfs,  \* what find_pdf_files returned in the current run
    discovered,     \* what find_pdf_files returned, run after run
    written,        \* names of the files the current run has written
    removed,        \* names of the files the current run has deleted
    analysed,       \* the documents the current run analysed one by one
    folder_before,  \* the folder as the current run found it
    runs,           \* number of runs started
    \* ---- analyze_briefs_with_claude ----
    error_msg,      \* str(e) of the exception the call raised, if any
    briefs_result,  \* what analyze_briefs_with_claude returned
    bpc,            \* position in analyze_briefs_with_claude
    \* ---- process_pdfs: the chunk analysis loop ----
    chunk_paths,    \* the chunks create_pdf_chunks returned
    loop_i,         \* loop variable i of `for i, chunk_path in enumerate(..., 1)`
    request,        \* the arguments of the analyze_pdf_chunk call in progress
    chunk_summaries,     \* local chunk_summaries
    cumulative_summary,  \* local cumulative_summary, as its list of parts
    runpc           \* position in process_pdfs

plannerVars == <<total_pages, max_pages, overlap, start_page, chunk_num, chunks, ppc>>
extractVars == <<num_pages, page_num, behaviour, cpc, running, future, result, calls>>
asmVars == <<document, ocrAvailable, plans, chunkId, page, state, attempts, pageText,
             circuit, text, pageFailures, strategyUsedPerPage, tripped, results>>
\* The variables of the entry points added after the first two.
catVars == <<pdf_files, file_index, merger, concatenated, catpc, reported>>
runVars == <<chunk_paths, loop_i, request, chunk_summaries, cumulative_summary, runpc>>
fsVars == <<folder, individual_only, fpc, original_pdfs, discovered, written,
           removed, analysed, folder_before, runs>>
briefVars == <<error_msg, briefs_result, bpc>>
restVars == <<asmVars, catVars, runVars, fsVars, briefVars>>
vars == <<prog, total_pages, max_pages, overlap, start_page, chunk_num, chunks, ppc,
          num_pages, page_num, behaviour, cpc, running, future, result, calls,
          restVars>>

----------------------------------------------------------------------------
(* Bounds of the model. *)

MaxTotalPages == 7
MaxChunkPages == 4
MaxOverlapPages == 5
MaxDocPages == 2
MaxCalls == 3

\* The loop of create_pdf_chunks has no bound of its own when overlap =
\* max_pages; the model stops it after more plans than any terminating run
\* emits.
MaxPlans == MaxTotalPages + 2

\* Default parameters of create_pdf_chunks.
DefaultMaxPages == 30
DefaultOverlap == 5

Min(a, b) == IF a <= b THEN a ELSE b

\* Planner inputs <<total_pages, max_pages, overlap>>: every small
\* combination, the two scenarios of the specification, and runs with the
\* parameters process_pdfs passes.
SmallInputs ==
    (0..MaxTotalPages) \X (1..MaxChunkPages) \X (0..MaxOverlapPages)

ScenarioInputs == {<<250, 100, 10>>, <<50, 100, 10>>}

DefaultInputs == {<<t, DefaultMaxPages, DefaultOverlap>> : t \in {30, 55, 56}}

PlannerInputs == SmallInputs \cup ScenarioInputs \cup DefaultInputs

----------------------------------------------------------------------------
(* create_pdf_chunks *)

\* range(a, b)
Range(a, b) == {n \in a..(b - 1) : TRUE}

\* `if total_pages <= max_pages` (line 159)
FitsSingleChunkStrict(t, m) == t < m
FitsSingleChunk(t, m) == t <= m

\* `while start_page < total_pages` (line 167)
LoopCondInclusive(s, t) == s <= t
LoopCond(s, t) == s < t

\* `end_page = min(start_page + max_pages, total_pages)` (line 168)
EndPageUnclipped(s, m, t) == s + m
EndPage(s, m, t) == Min(s + m, t)

\* `start_page += max_pages - overlap` (line 181)
NextStartNoOverlap(s, m, o) == s + m
NextStartStalls(s, m, o) == IF o = m - 1 THEN s ELSE s + m - o
NextStart(s, m, o) == s + m - o

\* _create_pdf_chunk: the page numbers the copy loop visits,
\* range(start_page, min(end_page, len(reader.pages))).
CopiedPageNums(s, e, t) == Range(s, Min(e, t))

\* reader.pages[page_num]: a negative index counts from the end, and an index
\* outside -len..len-1 raises IndexError.
PageIndexRaises(n, t) == n < -t \/ n >= t
PageAt(n, t) == IF n < 0 THEN t + n ELSE n

\* _create_pdf_chunk raises when one of its page reads raises.
CopyRaises(s, e, t) == \E n \in CopiedPageNums(s, e, t) : PageIndexRaises(n, t)

\* The pages _create_pdf_chunk writes into the chunk file.
CopiedPages(s, e, t) == {PageAt(n, t) : n \in CopiedPageNums(s, e, t)}

\* `return [pdf_path]`: the document itself is the only chunk.
WholeDocument(t) ==
    [startPage |-> 0, endPage |-> t, pages |-> Range(0, t),
     file |-> <<"pdf_path", 0, 0, 0>>]

\* The chunk written by one iteration of the loop; the file name is
\* chunk_{chunk_num}_pages_{start_page + 1}-{end_page}.pdf.
ChunkFile(n, s, e, t) ==
    [startPage |-> s, endPage |-> e, pages |-> CopiedPages(s, e, t),
     file |-> <<"chunk", n, s + 1, e>>]

\* Lines 153-165: count the pages; a document that fits is returned as is,
\* otherwise the loop starts at page 0.
PlannerBegin ==
    /\ prog = "create_pdf_chunks"
    /\ ppc = "call"
    /\ IF FitsSingleChunk(total_pages, max_pages)
         THEN /\ chunks' = <<WholeDocument(total_pages)>>
              /\ ppc' = "done"
              /\ UNCHANGED <<start_page, chunk_num>>
         ELSE /\ chunks' = <<>>
              /\ chunk_num' = 1
              /\ start_page' = 0
              /\ ppc' = "loop"
    /\ UNCHANGED <<prog, restVars, total_pages, max_pages, overlap, extractVars>>

\* Lines 167-182: one iteration of the planning loop.
PlannerLoop ==
    /\ prog = "create_pdf_chunks"
    /\ ppc = "loop"
    /\ LoopCond(start_page, total_pages)
    /\ Len(chunks) < MaxPlans
    /\ LET end_page == EndPage(start_page, max_pages, total_pages)
       IN  IF CopyRaises(start_page, end_page, total_pages)
             THEN /\ ppc' = "IndexError"
                  /\ UNCHANGED <<chunks, start_page, chunk_num>>
             ELSE /\ chunks' = Append(chunks,
                          ChunkFile(chunk_num, start_page, end_page, total_pages))
                  /\ start_page' = NextStart(start_page, max_pages, overlap)
                  /\ chunk_num' = chunk_num + 1
                  /\ ppc' = "loop"
    /\ UNCHANGED <<prog, restVars, total_pages, max_pages, overlap, extractVars>>

\* Lines 167, 184-185: the loop condition fails and the chunks are returned.
PlannerReturn ==
    /\ prog = "create_pdf_chunks"
    /\ ppc = "loop"
    /\ ~LoopCond(start_page, total_pages)
    /\ ppc' = "done"
    /\ UNCHANGED <<prog, restVars, total_pages, max_pages, overlap, start_page, chunk_num,
                   chunks, extractVars>>

PlannerNext == PlannerBegin \/ PlannerLoop \/ PlannerReturn

----------------------------------------------------------------------------
(* test_pypdf2_extraction *)

\* The result dict a call starts with (lines 59-65).
FreshResult ==
    [pypdf2_hangs |-> FALSE, pypdf2_error |-> "None", pypdf2_timeout |-> FALSE,
     pypdf2_text_length |-> 0, pypdf2_extraction_time |-> "None"]

NoFuture == <<"pending", "pending">>

Behaviours == {"text", "empty", "raise"}

\* extract_with_pypdf2 (lines 67-81): the pair the worker returns.  A page
\* number past the end is reported; a negative one is read from the end of
\* the document, or raises IndexError inside the try when it is below -len.
ExtractWithPypdf2(n, len, b) ==
    IF n >= len THEN <<"None", "Page number out of range">>
    ELSE IF PageIndexRaises(n, len) THEN <<"None", "sequence index out of range">>
    ELSE IF b = "raise" THEN <<"None", "extract_text failed">>
    ELSE IF b = "empty" THEN <<"", "seconds">>
    ELSE <<"text", "seconds">>

\* `isinstance(extraction_time, str)` (line 88)
IsErrorMessage(x) == x # "seconds"

\* `len(text) if text else 0` (line 91)
TextLength(txt) == IF txt = "text" THEN 4 ELSE 0

\* Leaving `with ThreadPoolExecutor(...)` (line 84) calls
\* shutdown(wait=True), which joins the worker thread: the block is left
\* only once the submitted call is no longer executing.
ExecutorExitNoWait(id, run) == TRUE
ExecutorExitReady(id, run) == id \notin run

\* Lines 57-65: a call of test_pypdf2_extraction for some page.
Call ==
    /\ prog = "test_pypdf2_extraction"
    /\ cpc \in {"idle", "returned"}
    /\ calls < MaxCalls
    /\ calls' = calls + 1
    /\ \E n \in (-(num_pages + 1))..num_pages : page_num' = n
    /\ \E b \in Behaviours : behaviour' = b
    /\ result' = FreshResult
    /\ future' = NoFuture
    /\ cpc' = "submit"
    /\ UNCHANGED <<prog, restVars, plannerVars, num_pages, running>>

\* Lines 84-85: the executor is created and extract_with_pypdf2 submitted.
Submit ==
    /\ prog = "test_pypdf2_extraction"
    /\ cpc = "submit"
    /\ running' = running \cup {calls}
    /\ cpc' = "waiting"
    /\ UNCHANGED <<prog, restVars, plannerVars, num_pages, page_num, behaviour, future,
                   result, calls>>

\* Lines 67-81: extract_with_pypdf2 comes to its end on the worker thread.
\* Nothing bounds the time this takes.
WorkerFinish ==
    /\ prog = "test_pypdf2_extraction"
    /\ \E id \in running :
          /\ running' = running \ {id}
          /\ future' = IF id = calls
                         THEN ExtractWithPypdf2(page_num, num_pages, behaviour)
                         ELSE future
    /\ UNCHANGED <<prog, restVars, plannerVars, num_pages, page_num, behaviour, cpc,
                   result, calls>>

\* Lines 86-93, 103: future.result returns within the timeout; the with
\* block is left at once (the worker is idle) and the result returned.
ResultReady ==
    /\ prog = "test_pypdf2_extraction"
    /\ cpc = "waiting"
    /\ calls \notin running
    /\ result' = IF IsErrorMessage(future[2])
                   THEN [result EXCEPT !.pypdf2_error = future[2]]
                   ELSE [result EXCEPT !.pypdf2_text_length = TextLength(future[1]),
                                       !.pypdf2_extraction_time = future[2]]
    /\ cpc' = "returned"
    /\ UNCHANGED <<prog, restVars, plannerVars, num_pages, page_num, behaviour, running,
                   future, calls>>

\* Line 86: the timeout elapses first and future.result raises
\* TimeoutError, which starts to leave the with block.
DeadlineElapses ==
    /\ prog = "test_pypdf2_extraction"
    /\ cpc = "waiting"
    /\ calls \in running
    /\ cpc' = "executor_exit"
    /\ UNCHANGED <<prog, restVars, plannerVars, num_pages, page_num, behaviour, running,
                   future, result, calls>>

\* Lines 84, 95-98, 103: the with block is left, the TimeoutError reaches
\* its handler, the timeout is recorded and the result returned.
TimeoutHandled ==
    /\ prog = "test_pypdf2_extraction"
    /\ cpc = "executor_exit"
    /\ ExecutorExitReady(calls, running)
    /\ result' = [result EXCEPT !.pypdf2_timeout = TRUE, !.pypdf2_hangs = TRUE]
    /\ cpc' = "returned"
    /\ UNCHANGED <<prog, restVars, plannerVars, num_pages, page_num, behaviour, running,
                   future, calls>>

CallerNext == Call \/ Submit \/ ResultReady \/ DeadlineElapses \/ TimeoutHandled

----------------------------------------------------------------------------
(* ChunkAssembler, TieredExtractor, CircuitBreaker and the classifier.      *)
(* Their code is not among the source files; they are modelled from         *)
(* sections 3, 4.2-4.6 and 9 of the specification.                          *)

\* circuitBreakerThreshold, "e.g. 3".
CircuitBreakerThreshold == 3

\* earlyPageThreshold, "a small early-page threshold".
EarlyPageThreshold == 4

\* The tier order.
Strategies == <<"Primary", "Secondary", "OCR">>

Outcomes == {"Success", "EmptyResult", "Timeout", "Error"}

Trying(i) ==
    IF i = 1 THEN "TryingPrimary" ELSE IF i = 2 THEN "TryingSecondary" ELSE "TryingOCR"

TierOf(st) ==
    IF st = "TryingPrimary" THEN 1
    ELSE IF st = "TryingSecondary" THEN 2
    ELSE IF st = "TryingOCR" THEN 3
    ELSE 0

TryingStates == {"TryingPrimary", "TryingSecondary", "TryingOCR"}

\* Static metadata of a document, as far as the classifier reads it: one
\* document for each rule of the classifier.
Documents ==
    {[knownBad |-> TRUE, reportLike |-> TRUE, size |-> "normal"],
     [knownBad |-> FALSE, reportLike |-> TRUE, size |-> "small"],
     [knownBad |-> FALSE, reportLike |-> TRUE, size |-> "large"],
     [knownBad |-> FALSE, reportLike |-> TRUE, size |-> "normal"],
     [knownBad |-> FALSE, reportLike |-> FALSE, size |-> "normal"]}

\* classifyPage: the ordered rules of section 4.2, first match wins.  The
\* large-file rule flags for awareness only; its verdict is not a hard skip.
ClassifyPage(doc, n) ==
    IF doc.knownBad THEN "KnownPattern"
    ELSE IF doc.size = "small" /\ doc.reportLike THEN "SizeAnomaly"
    ELSE IF doc.size = "large" THEN "LargeFile"
    ELSE IF n < EarlyPageThreshold /\ doc.reportLike THEN "EarlyPageOfReport"
    ELSE "None"

\* "A KnownPattern or EarlyPageOfReport verdict on a page causes
\* TieredExtractor to skip the Primary strategy for that page entirely."
SkipsPrimaryKnownOnly(v) == v = "KnownPattern"
SkipsPrimary(v) == v \in {"KnownPattern", "EarlyPageOfReport"}

\* isDisabled(chunkId, strategy): the failure count has reached the threshold.
IsDisabledLate(c, sigma) == c[sigma] > CircuitBreakerThreshold
IsDisabled(c, sigma) == c[sigma] >= CircuitBreakerThreshold

\* recordFailure(chunkId, strategy)
RecordFailure(c, sigma) == [c EXCEPT ![sigma] = @ + 1]

\* The CircuitState a chunk starts with.
FreshCircuit == [sigma \in {"Primary", "Secondary", "OCR"} |-> 0]

\* Only Timeout and Error count as circuit-breaker failures.
CountsAsFailureUnlessSuccess(o) == o # "Success"
CountsAsFailure(o) == o \in {"Timeout", "Error"}

\* Whether tier i may be attempted: not disabled for this chunk, not Primary
\* on a page the classifier makes skip it, not OCR when OCR is unavailable.
Eligible(i, v, c, ocr) ==
    /\ ~IsDisabled(c, Strategies[i])
    /\ i = 1 => ~SkipsPrimary(v)
    /\ i = 3 => ocr

\* The next strategy in tier order after tier i (0: from the start), or 0
\* when none remains.
NextStrategyRetry(i, v, c, ocr) ==
    LET S == {j \in 1..3 : j >= i /\ j >= 1 /\ Eligible(j, v, c, ocr)}
    IN  IF S = {} THEN 0 ELSE CHOOSE j \in S : \A k \in S : j <= k
NextStrategy(i, v, c, ocr) ==
    LET S == {j \in (i + 1)..3 : Eligible(j, v, c, ocr)}
    IN  IF S = {} THEN 0 ELSE CHOOSE j \in S : \A k \in S : j <= k

\* The text a strategy returns for page n when it succeeds, and the
\* page-boundary separator.
TextOfPage(n) == <<n>>
Separator == -1

\* Adding one page's final text to the chunk text: only a non-empty text is
\* added, after a separator when text precedes it.
JoinReversed(t, pt) ==
    IF pt = <<>> THEN t ELSE IF t = <<>> THEN pt ELSE pt \o <<Separator>> \o t
Join(t, pt) ==
    IF pt = <<>> THEN t ELSE IF t = <<>> THEN pt ELSE t \o <<Separator>> \o pt

\* The failure set after a page ended without text.
FailuresDropped(f, n) == f
FailuresWith(f, n) == f \cup {n}

NoPages == [n \in {} |-> "Primary"]

\* The plans of ChunkPlanner for <<totalPages, maxPagesPerChunk, overlapPages>>:
\* the loop of create_pdf_chunks.
RECURSIVE LoopPlans(_, _, _, _)
LoopPlans(s, t, m, o) ==
    IF LoopCond(s, t)
      THEN <<[startPage |-> s, endPage |-> EndPage(s, m, t)]>>
               \o LoopPlans(NextStart(s, m, o), t, m, o)
      ELSE <<>>

PlansOf(t, m, o) ==
    IF FitsSingleChunk(t, m)
      THEN <<[startPage |-> 0, endPage |-> t]>>
      ELSE LoopPlans(0, t, m, o)

AssemblerInputs == {<<5, 4, 0>>, <<2, 4, 0>>}

Verdict == ClassifyPage(document, page)

\* assemble(plan) begins: CircuitState is reset at the start of each chunk.
BeginChunk ==
    /\ prog = "assemble"
    /\ state = "Idle"
    /\ chunkId <= Len(plans)
    /\ page' = plans[chunkId].startPage
    /\ circuit' = FreshCircuit
    /\ text' = <<>>
    /\ pageFailures' = {}
    /\ strategyUsedPerPage' = NoPages
    /\ attempts' = <<>>
    /\ pageText' = <<>>
    /\ state' = "NotStarted"
    /\ UNCHANGED <<prog, fsVars, briefVars, plannerVars, extractVars, catVars, runVars, document, ocrAvailable, plans,
                   chunkId, tripped, results>>

\* The page ends without text: Done with empty text, recorded as failed.
\* (The primed variables state, pageText and pageFailures.)
PageFails ==
    /\ state' = "Done"
    /\ pageText' = <<>>
    /\ pageFailures' = FailuresWith(pageFailures, page)
    /\ UNCHANGED strategyUsedPerPage

\* NotStarted: the machine enters the first strategy that is not skipped.
StartPage ==
    /\ prog = "assemble"
    /\ state = "NotStarted"
    /\ page < plans[chunkId].endPage
    /\ LET j == NextStrategy(0, Verdict, circuit, ocrAvailable)
       IN  IF j = 0
             THEN PageFails
             ELSE /\ state' = Trying(j)
                  /\ UNCHANGED <<pageText, pageFailures, strategyUsedPerPage>>
    /\ UNCHANGED <<prog, fsVars, briefVars, plannerVars, extractVars, catVars, runVars, document, ocrAvailable, plans,
                   chunkId, page, attempts, circuit, text, tripped, results>>

\* One strategy execution under its deadline ends with outcome o.
Attempt(o) ==
    /\ prog = "assemble"
    /\ state \in TryingStates
    /\ LET i == TierOf(state)
           sigma == Strategies[i]
           c == IF CountsAsFailure(o) THEN RecordFailure(circuit, sigma) ELSE circuit
           j == NextStrategy(i, Verdict, c, ocrAvailable)
       IN  /\ attempts' = Append(attempts, [strategy |-> sigma, outcome |-> o])
           /\ circuit' = c
           /\ tripped' = IF IsDisabled(c, sigma)
                           THEN tripped \cup {<<chunkId, sigma>>} ELSE tripped
           /\ IF o = "Success"
                THEN /\ state' = "Done"
                     /\ pageText' = TextOfPage(page)
                     /\ strategyUsedPerPage' = (page :> sigma) @@ strategyUsedPerPage
                     /\ UNCHANGED pageFailures
                ELSE IF j = 0
                  THEN PageFails
                  ELSE /\ state' = Trying(j)
                       /\ UNCHANGED <<pageText, pageFailures, strategyUsedPerPage>>
    /\ UNCHANGED <<prog, fsVars, briefVars, plannerVars, extractVars, catVars, runVars, document, ocrAvailable, plans,
                   chunkId, page, text, results>>

\* Done: the page's final text is committed to the chunk text, the attempts
\* are discarded and the assembler moves to the next page.
CommitPage ==
    /\ prog = "assemble"
    /\ state = "Done"
    /\ text' = Join(text, pageText)
    /\ attempts' = <<>>
    /\ pageText' = <<>>
    /\ page' = page + 1
    /\ state' = "NotStarted"
    /\ UNCHANGED <<prog, fsVars, briefVars, plannerVars, extractVars, catVars, runVars, document, ocrAvailable, plans,
                   chunkId, circuit, pageFailures, strategyUsedPerPage, tripped,
                   results>>

\* Every page of the range is done: the ChunkResult is handed over.
FinishChunk ==
    /\ prog = "assemble"
    /\ state = "NotStarted"
    /\ page >= plans[chunkId].endPage
    /\ results' = Append(results,
          [plan |-> plans[chunkId], text |-> text, pageFailures |-> pageFailures,
           strategyUsedPerPage |-> strategyUsedPerPage])
    /\ chunkId' = chunkId + 1
    /\ state' = "Idle"
    /\ UNCHANGED <<prog, fsVars, briefVars, plannerVars, extractVars, catVars, runVars, document, ocrAvailable, plans,
                   page, attempts, pageText, circuit, text, pageFailures,
                   strategyUsedPerPage, tripped>>

AssemblerNext ==
    \/ BeginChunk
    \/ StartPage
    \/ \E o \in Outcomes : Attempt(o)
    \/ CommitPage
    \/ FinishChunk

AssemblerInit ==
    /\ document \in Documents
    /\ ocrAvailable \in BOOLEAN
    /\ \E in \in AssemblerInputs : plans = PlansOf(in[1], in[2], in[3])
    /\ chunkId = 1
    /\ page = 0
    /\ state = "Idle"
    /\ attempts = <<>>
    /\ pageText = <<>>
    /\ circuit = FreshCircuit
    /\ text = <<>>
    /\ pageFailures = {}
    /\ strategyUsedPerPage = NoPages
    /\ tripped = {}
    /\ results = <<>>

AssemblerIdle ==
    /\ document = [knownBad |-> FALSE, reportLike |-> FALSE, size |-> "normal"]
    /\ ocrAvailable = TRUE
    /\ plans = <<>>
    /\ chunkId = 1
    /\ page = 0
    /\ state = "Idle"
    /\ attempts = <<>>
    /\ pageText = <<>>
    /\ circuit = FreshCircuit
    /\ text = <<>>
    /\ pageFailures = {}
    /\ strategyUsedPerPage = NoPages
    /\ tripped = {}
    /\ results = <<>>

----------------------------------------------------------------------------
(* concatenate_pdfs *)

MaxFiles == 3

\* A document: its number of pages and how PdfMerger copes with it.  "ok":
\* merger.append succeeds; "pagewise": merger.append raises and the
\* page-by-page fallback runs; "unreadable": the fallback raises as well.
Docs == [pages : 1..MaxDocPages, load : {"ok", "pagewise", "unreadable"}]

FileLists == UNION {[1..n -> Docs] : n \in 1..MaxFiles}

\* A page of the merged sequence: document, local index, global index.
PageRef(d, k, g) == [doc |-> d, local |-> k, global |-> g]

\* Pages k..n-1 of document d added to m one after the other, skipping the
\* pages in bad; a page added gets the next global index.
RECURSIVE AddPages(_, _, _, _, _)
AddPages(m, d, k, n, bad) ==
    IF k >= n THEN m
    ELSE AddPages(IF k \in bad THEN m ELSE Append(m, PageRef(d, k, Len(m))),
                  d, k + 1, n, bad)

\* The pages of document d as a document of its own.
PagesOfDoc(d, n) == AddPages(<<>>, d, 0, n, {})

\* `merger.append(pdf_file)` (line 114): all pages of the document, or, when
\* it raises, none.
AppendDocument(m, d, n) == AddPages(m, d, 0, n, {})

\* Lines 120-127: `merger.append(pdf_file, pages=(page_num, page_num + 1))`
\* for every page, skipping the pages on which it raises.
AppendPagewiseAfterPartial(m, d, n, bad) ==
    AddPages(AddPages(m, d, 0, 1, {}), d, 0, n, bad)
AppendPagewise(m, d, n, bad) == AddPages(m, d, 0, n, bad)

\* Line 127: the message "Skipping page {page_num + 1} of {pdf_file.name}"
\* names each page the fallback leaves out.  The messages of lines 130 and
\* 142-144 name a file, never a page.
SkippedPages(d, bad) == {<<d, k>> : k \in bad}

\* Lines 101-109: a single file is returned as it is; otherwise the merge
\* starts.
CatBegin ==
    /\ prog = "concatenate_pdfs"
    /\ catpc = "call"
    /\ IF Len(pdf_files) = 1
         THEN /\ concatenated' = [kind |-> "single",
                                  pages |-> PagesOfDoc(1, pdf_files[1].pages)]
              /\ catpc' = "done"
              /\ UNCHANGED <<merger, file_index>>
         ELSE /\ merger' = <<>>
              /\ file_index' = 1
              /\ catpc' = "loop"
              /\ UNCHANGED concatenated
    /\ UNCHANGED <<prog, fsVars, briefVars, plannerVars, extractVars, asmVars, runVars, pdf_files,
                   reported>>

\* Lines 111-131: one iteration of `for pdf_file in pdf_files`, with its
\* fallback.
CatAdd ==
    /\ prog = "concatenate_pdfs"
    /\ catpc = "loop"
    /\ file_index <= Len(pdf_files)
    /\ LET f == pdf_files[file_index]
       IN  \/ /\ f.load = "ok"
              /\ merger' = AppendDocument(merger, file_index, f.pages)
              /\ reported' = reported
           \/ /\ f.load = "pagewise"
              /\ \E bad \in SUBSET (0..(f.pages - 1)) :
                    /\ merger' = AppendPagewise(merger, file_index, f.pages, bad)
                    /\ reported' = reported \cup SkippedPages(file_index, bad)
           \/ /\ f.load = "unreadable"
              /\ merger' = merger
              /\ reported' = reported
    /\ file_index' = file_index + 1
    /\ UNCHANGED <<prog, fsVars, briefVars, plannerVars, extractVars, asmVars, runVars, pdf_files,
                   concatenated, catpc>>

\* Lines 133-139: the merged document is written and returned.
CatWrite ==
    /\ prog = "concatenate_pdfs"
    /\ catpc = "loop"
    /\ file_index > Len(pdf_files)
    /\ concatenated' = [kind |-> "merged", pages |-> merger]
    /\ catpc' = "done"
    /\ UNCHANGED <<prog, fsVars, briefVars, plannerVars, extractVars, asmVars, runVars, pdf_files,
                   merger, file_index, reported>>

\* Lines 140-145: writing raises and the first PDF is returned instead.
CatWriteFails ==
    /\ prog = "concatenate_pdfs"
    /\ catpc = "loop"
    /\ file_index > Len(pdf_files)
    /\ concatenated' = [kind |-> "first",
                        pages |-> PagesOfDoc(1, pdf_files[1].pages)]
    /\ catpc' = "done"
    /\ UNCHANGED <<prog, fsVars, briefVars, plannerVars, extractVars, asmVars, runVars, pdf_files,
                   merger, file_index, reported>>

CatNext == CatBegin \/ CatAdd \/ CatWrite \/ CatWriteFails

NoDocument == [kind |-> "none", pages |-> <<>>]

CatInit ==
    /\ pdf_files \in FileLists
    /\ file_index = 0
    /\ merger = <<>>
    /\ concatenated = NoDocument
    /\ catpc = "call"
    /\ reported = {}

CatIdle ==
    /\ pdf_files = <<>>
    /\ file_index = 0
    /\ merger = <<>>
    /\ concatenated = NoDocument
    /\ catpc = "idle"
    /\ reported = {}

----------------------------------------------------------------------------
(* process_pdfs: the loop over the chunks, and analyze_pdf_chunk *)

\* The chunks create_pdf_chunks returns for a document of t pages.
ChunkPathsOf(t, m, o) ==
    LET P == PlansOf(t, m, o)
    IN  IF FitsSingleChunk(t, m)
          THEN <<WholeDocument(t).file>>
          ELSE [k \in 1..Len(P) |->
                   ChunkFile(k, P[k].startPage, P[k].endPage, t).file]

\* Page counts of the documents the loop is run on.
RunTotals == {20, 55, 56, 80}

NoRequest ==
    [chunk_path |-> <<"none", 0, 0, 0>>, chunk_num |-> 0, total_chunks |-> 0,
     previous_summary |-> <<>>]

\* What can happen to one call of analyze_pdf_chunk: the API answers, the
\* API call raises, or reading the chunk file raises.
AnalysisOutcomes == {"ok", "api_error", "read_error"}

\* analyze_pdf_chunk: reading the chunk file (lines 239-242) is outside the
\* try and its exception leaves the function; the API call (lines 263-295)
\* returns the text of Claude or, when it raises, the error text.
AnalyzePdfChunk(req, o) ==
    [raised |-> o = "read_error",
     summary |-> IF o = "ok" THEN <<"summary", req.chunk_path>>
                 ELSE <<"error", req.chunk_num>>]

\* `chunk_summaries.append(summary)` (line 734)
PrependSummary(list, summary) == <<summary>> \o list
AppendSummary(list, summary) == Append(list, summary)

\* Lines 736-740: "CHUNK {i} SUMMARY:\n{summary}" is added at the end of
\* cumulative_summary; the text is kept as the list of its parts.
OverwriteCumulative(c, i, summary) == <<<<i, summary>>>>
ExtendCumulative(c, i, summary) == Append(c, <<i, summary>>)

\* Lines 244-259: the previous summaries the prompt of a call contains.
ContextText(req) ==
    IF req.previous_summary # <<>> /\ req.chunk_num > 1
      THEN req.previous_summary
      ELSE <<>>

\* Lines 732-733: the next chunk is handed to analyze_pdf_chunk.
AnalyzeCall ==
    /\ prog = "process_pdfs"
    /\ runpc = "loop"
    /\ loop_i <= Len(chunk_paths)
    /\ request' = [chunk_path |-> chunk_paths[loop_i], chunk_num |-> loop_i,
                   total_chunks |-> Len(chunk_paths),
                   previous_summary |-> cumulative_summary]
    /\ runpc' = "analyzing"
    /\ UNCHANGED <<prog, fsVars, briefVars, plannerVars, extractVars, asmVars, catVars, chunk_paths,
                   loop_i, chunk_summaries, cumulative_summary>>

\* Lines 239-295 and 733-740: the call returns and its summary is kept, or
\* it raises; process_pdfs has no handler, so the exception ends the run.
AnalyzeReturn ==
    /\ prog = "process_pdfs"
    /\ runpc = "analyzing"
    /\ \E o \in AnalysisOutcomes :
          LET r == AnalyzePdfChunk(request, o)
          IN  IF r.raised
                THEN /\ runpc' = "aborted"
                     /\ UNCHANGED <<chunk_summaries, cumulative_summary, loop_i>>
                ELSE /\ chunk_summaries' = AppendSummary(chunk_summaries, r.summary)
                     /\ cumulative_summary' =
                           ExtendCumulative(cumulative_summary, loop_i, r.summary)
                     /\ loop_i' = loop_i + 1
                     /\ runpc' = "loop"
    /\ UNCHANGED <<prog, fsVars, briefVars, plannerVars, extractVars, asmVars, catVars, chunk_paths,
                   request>>

\* Lines 732, 742-747: the loop has ended and the outputs are generated.
AnalyzeLoopExit ==
    /\ prog = "process_pdfs"
    /\ runpc = "loop"
    /\ loop_i > Len(chunk_paths)
    /\ runpc' = "generate"
    /\ UNCHANGED <<prog, fsVars, briefVars, plannerVars, extractVars, asmVars, catVars, chunk_paths,
                   loop_i, request, chunk_summaries, cumulative_summary>>

RunNext == AnalyzeCall \/ AnalyzeReturn \/ AnalyzeLoopExit

RunInit ==
    /\ \E t \in RunTotals :
          chunk_paths = ChunkPathsOf(t, DefaultMaxPages, DefaultOverlap)
    /\ loop_i = 1
    /\ request = NoRequest
    /\ chunk_summaries = <<>>
    /\ cumulative_summary = <<>>
    /\ runpc = "loop"

RunIdle ==
    /\ chunk_paths = <<>>
    /\ loop_i = 1
    /\ request = NoRequest
    /\ chunk_summaries = <<>>
    /\ cumulative_summary = <<>>
    /\ runpc = "idle"

----------------------------------------------------------------------------
(* process_pdfs: the files of the folder *)

MaxRuns == 2

\* How many deletions of one cleanup may fail.
MaxUnlinkFailures == 1

\* A file name is the sequence of its characters.
IsPrefix(p, n) == Len(p) <= Len(n) /\ SubSeq(n, 1, Len(p)) = p
IsSuffix(x, n) == Len(x) <= Len(n) /\ SubSeq(n, Len(n) - Len(x) + 1, Len(n)) = x

\* Python's `pattern in name`
Contains(n, p) ==
    \E i \in 0..(Len(n) - Len(p)) : SubSeq(n, i + 1, i + Len(p)) = p

\* folder.glob(pattern) for a pattern with at most one `*`.
GlobMatches(n, g) ==
    IF g.star
      THEN /\ Len(n) >= Len(g.prefix) + Len(g.suffix)
           /\ IsPrefix(g.prefix, n)
           /\ IsSuffix(g.suffix, n)
      ELSE n = g.prefix \o g.suffix

DotPdf == <<".", "p", "d", "f">>
DotTxt == <<".", "t", "x", "t">>

\* "*.pdf" (line 76)
PdfGlob == [star |-> TRUE, prefix |-> <<>>, suffix |-> DotPdf]

\* excluded_patterns (line 79)
ExcludedPatterns ==
    { <<"c", "h", "u", "n", "k", "_">>,
      <<"c", "o", "n", "c", "a", "t", "e", "n", "a", "t", "e", "d">>,
      <<"_", "s", "u", "m", "m", "a", "r", "y", ".", "p", "d", "f">>,
      <<"_", "t", "i", "m", "e", "l", "i", "n", "e", ".", "p", "d", "f">>,
      <<"_", "d", "r", "a", "m", "a", "t", "i", "s", "_", "p", "e", "r", "s", "o", "n", "a", "e", ".", "p", "d", "f">> }

\* patterns of _cleanup_previous_outputs (lines 216-221)
CleanupPatterns ==
    { [star |-> TRUE, prefix |-> <<"c", "h", "u", "n", "k", "_">>, suffix |-> DotPdf],
      [star |-> FALSE, prefix |-> <<"c", "o", "n", "c", "a", "t", "e", "n", "a", "t", "e", "d", "_", "d", "o", "c", "u", "m", "e", "n", "t">>, suffix |-> DotPdf],
      [star |-> TRUE, prefix |-> <<"o", "v", "e", "r", "a", "l", "l", "_">>, suffix |-> DotPdf],
      [star |-> TRUE, prefix |-> <<>>,
       suffix |-> <<"_", "i", "n", "d", "i", "v", "i", "d", "u", "a", "l", "_", "s", "u", "m", "m", "a", "r", "y", ".", "p", "d", "f">>] }

\* find_pdf_files keeps a name (lines 76-82).
IsOriginalPdf(n) ==
    /\ GlobMatches(n, PdfGlob)
    /\ ~ \E p \in ExcludedPatterns : Contains(n, p)

FindPdfFiles(f) == {n \in f : IsOriginalPdf(n)}

\* _cleanup_previous_outputs tries to delete a name (lines 224-225).
CleanupMatches(n) == \E g \in CleanupPatterns : GlobMatches(n, g)

OverallSummary == <<"o", "v", "e", "r", "a", "l", "l", "_", "s", "u", "m", "m", "a", "r", "y">>
OverallTimeline == <<"o", "v", "e", "r", "a", "l", "l", "_", "t", "i", "m", "e", "l", "i", "n", "e">>
OverallDramatis == <<"o", "v", "e", "r", "a", "l", "l", "_", "d", "r", "a", "m", "a", "t", "i", "s", "_", "p", "e", "r", "s", "o", "n", "a", "e">>

\* The three files load_existing_overall_files asks for (lines 679-681),
\* which are the three create_pdf_summary writes (lines 752-768).
OverallPdfs == {OverallSummary \o DotPdf, OverallTimeline \o DotPdf,
                OverallDramatis \o DotPdf}

\* Lines 771-776
OverallTxts == {OverallSummary \o DotTxt, OverallTimeline \o DotTxt,
                OverallDramatis \o DotTxt}

\* `if not (summary_file.exists() and timeline_file.exists() and
\* dramatis_file.exists())` (line 683)
SomeOverallFileExists(f) == OverallPdfs \cap f # {}
OverallFilesExist(f) == OverallPdfs \subseteq f

ConcatenatedDocument == <<"c", "o", "n", "c", "a", "t", "e", "n", "a", "t", "e", "d", "_", "d", "o", "c", "u", "m", "e", "n", "t">> \o DotPdf

DigitChars == <<"0", "1", "2", "3", "4", "5", "6", "7", "8", "9">>

\* The decimal digits of n >= 0.
RECURSIVE Decimal(_)
Decimal(n) ==
    IF n < 10 THEN <<DigitChars[n + 1]>>
    ELSE Append(Decimal(n \div 10), DigitChars[(n % 10) + 1])

\* Python's {n:0wd}
RECURSIVE ZeroPad(_, _)
ZeroPad(d, w) == IF Len(d) >= w THEN d ELSE ZeroPad(<<"0">> \o d, w)

\* f"chunk_{chunk_num:02d}_pages_{start_page + 1:03d}-{end_page:03d}.pdf"
\* (line 173), for a chunk file <<"chunk", chunk_num, start_page + 1, end_page>>
ChunkFileName(c) ==
    <<"c", "h", "u", "n", "k", "_">> \o ZeroPad(Decimal(c[2]), 2)
        \o <<"_", "p", "a", "g", "e", "s", "_">> \o ZeroPad(Decimal(c[3]), 3)
        \o <<"-">> \o ZeroPad(Decimal(c[4]), 3) \o DotPdf

\* The chunk files create_pdf_chunks writes for a document of t pages.
ChunkFileNames(t) ==
    LET P == ChunkPathsOf(t, DefaultMaxPages, DefaultOverlap)
    IN  {ChunkFileName(P[k]) : k \in {j \in 1..Len(P) : P[j][1] = "chunk"}}

\* Path.stem of a name with a three-letter suffix
Stem(n) == SubSeq(n, 1, Len(n) - 4)

\* f"{pdf_file.stem}_individual_summary.pdf" (lines 510, 642)
IndividualSummaryName(n) == Stem(n) \o <<"_", "i", "n", "d", "i", "v", "i", "d", "u", "a", "l", "_", "s", "u", "m", "m", "a", "r", "y", ".", "p", "d", "f">>

\* The files a folder may hold before the first run: documents of the user,
\* one of them named overall_budget.pdf, outputs of an earlier run, notes.
InitialNames ==
    { <<"a", ".", "p", "d", "f">>,
      <<"b", ".", "p", "d", "f">>,
      <<"o", "v", "e", "r", "a", "l", "l", "_", "b", "u", "d", "g", "e", "t", ".", "p", "d", "f">>,
      <<"n", "o", "t", "e", "s", ".", "t", "x", "t">> } \cup OverallPdfs

\* Page counts of the document that is split into chunks.
FolderTotals == {20, 55}

\* process_pdfs is called (line 693); the mode is that of the command line.
RunStart ==
    /\ prog = "runs"
    /\ fpc \in {"start", "done"}
    /\ runs < MaxRuns
    /\ runs' = runs + 1
    /\ \E m \in BOOLEAN :
          /\ individual_only' = m
          /\ fpc' = IF m THEN "find" ELSE "cleanup"
    /\ folder_before' = folder
    /\ original_pdfs' = {}
    /\ written' = {}
    /\ removed' = {}
    /\ analysed' = {}
    /\ UNCHANGED <<prog, briefVars, plannerVars, extractVars, asmVars, catVars, runVars,
                   folder, discovered>>

\* Lines 718-719, 212-233: every file matching a pattern is deleted, unless
\* its unlink raises, which is reported and passed over.
Cleanup ==
    /\ prog = "runs"
    /\ fpc = "cleanup"
    /\ \E kept \in SUBSET {n \in folder : CleanupMatches(n)} :
          /\ Cardinality(kept) <= MaxUnlinkFailures
          /\ removed' = {n \in folder : CleanupMatches(n)} \ kept
          /\ folder' = folder \ removed'
    /\ fpc' = "find"
    /\ UNCHANGED <<prog, briefVars, plannerVars, extractVars, asmVars, catVars, runVars,
                   individual_only, original_pdfs, discovered, written, analysed,
                   folder_before, runs>>

\* Lines 699 and 722, 73-97: find_pdf_files; without an original PDF the
\* program exits.
Find ==
    /\ prog = "runs"
    /\ fpc = "find"
    /\ original_pdfs' = FindPdfFiles(folder)
    /\ discovered' = Append(discovered, original_pdfs')
    /\ fpc' = IF original_pdfs' = {} THEN "done"
              ELSE IF individual_only THEN "load" ELSE "concatenate"
    /\ UNCHANGED <<prog, briefVars, plannerVars, extractVars, asmVars, catVars, runVars,
                   folder, individual_only, written, removed, analysed,
                   folder_before, runs>>

\* Lines 723, 99-145: several files are merged into
\* concatenated_document.pdf; when writing fails the file may still have
\* been created.
Concatenate ==
    /\ prog = "runs"
    /\ fpc = "concatenate"
    /\ \/ /\ Cardinality(original_pdfs) > 1
          /\ folder' = folder \cup {ConcatenatedDocument}
          /\ written' = written \cup {ConcatenatedDocument}
       \/ UNCHANGED <<folder, written>>
    /\ fpc' = "chunks"
    /\ UNCHANGED <<prog, briefVars, plannerVars, extractVars, asmVars, catVars, runVars,
                   individual_only, original_pdfs, discovered, removed, analysed,
                   folder_before, runs>>

\* Lines 726, 153-185: the chunk files are written.
WriteChunks ==
    /\ prog = "runs"
    /\ fpc = "chunks"
    /\ \E t \in FolderTotals :
          /\ folder' = folder \cup ChunkFileNames(t)
          /\ written' = written \cup ChunkFileNames(t)
    /\ fpc' = "analyze"
    /\ UNCHANGED <<prog, briefVars, plannerVars, extractVars, asmVars, catVars, runVars,
                   individual_only, original_pdfs, discovered, removed, analysed,
                   folder_before, runs>>

\* Lines 728-747: the chunks are analysed; an exception ends the run.
AnalyzeChunks ==
    /\ prog = "runs"
    /\ fpc = "analyze"
    /\ \E next \in {"outputs", "done"} : fpc' = next
    /\ UNCHANGED <<prog, briefVars, plannerVars, extractVars, asmVars, catVars, runVars,
                   folder, individual_only, original_pdfs, discovered, written,
                   removed, analysed, folder_before, runs>>

\* Lines 749-776: the three overall PDFs and their text versions.
WriteOutputs ==
    /\ prog = "runs"
    /\ fpc = "outputs"
    /\ folder' = folder \cup OverallPdfs \cup OverallTxts
    /\ written' = written \cup OverallPdfs \cup OverallTxts
    /\ fpc' = "individual"
    /\ UNCHANGED <<prog, briefVars, plannerVars, extractVars, asmVars, catVars, runVars,
                   individual_only, original_pdfs, discovered, removed, analysed,
                   folder_before, runs>>

\* Lines 702-706, 675-691: the individual-only run asks for the overall
\* files and returns when one is missing.
LoadExisting ==
    /\ prog = "runs"
    /\ fpc = "load"
    /\ fpc' = IF OverallFilesExist(folder) THEN "individual" ELSE "done"
    /\ UNCHANGED <<prog, briefVars, plannerVars, extractVars, asmVars, catVars, runVars,
                   folder, individual_only, original_pdfs, discovered, written,
                   removed, analysed, folder_before, runs>>

\* Lines 710 and 778, 438-541 and 543-673: each original document is
\* analysed; a summary PDF is written next to those whose analysis succeeds.
AnalyzeIndividual ==
    /\ prog = "runs"
    /\ fpc = "individual"
    /\ analysed' = original_pdfs
    /\ \E ok \in SUBSET original_pdfs :
          /\ folder' = folder \cup {IndividualSummaryName(n) : n \in ok}
          /\ written' = written \cup {IndividualSummaryName(n) : n \in ok}
    /\ fpc' = "done"
    /\ UNCHANGED <<prog, briefVars, plannerVars, extractVars, asmVars, catVars, runVars,
                   individual_only, original_pdfs, discovered, removed,
                   folder_before, runs>>

FolderNext ==
    \/ RunStart \/ Cleanup \/ Find \/ Concatenate \/ WriteChunks
    \/ AnalyzeChunks \/ WriteOutputs \/ LoadExisting \/ AnalyzeIndividual

FolderInit ==
    /\ folder \in SUBSET InitialNames
    /\ individual_only = FALSE
    /\ fpc = "start"
    /\ original_pdfs = {}
    /\ discovered = <<>>
    /\ written = {}
    /\ removed = {}
    /\ analysed = {}
    /\ folder_before = folder
    /\ runs = 0

FolderIdle ==
    /\ folder = {}
    /\ individual_only = FALSE
    /\ fpc = "idle"
    /\ original_pdfs = {}
    /\ discovered = <<>>
    /\ written = {}
    /\ removed = {}
    /\ analysed = {}
    /\ folder_before = {}
    /\ runs = 0

----------------------------------------------------------------------------
(* analyze_briefs_with_claude (src/unnamed/part_000) *)

UpperCase == <<"A", "B", "C", "D", "E", "F", "G", "H", "I", "J", "K",
               "L", "M", "N", "O", "P", "Q", "R", "S", "T", "U", "V",
               "W", "X", "Y", "Z">>
LowerCase == <<"a", "b", "c", "d", "e", "f", "g", "h", "i", "j", "k",
               "l", "m", "n", "o", "p", "q", "r", "s", "t", "u", "v",
               "w", "x", "y", "z">>

\* str.lower(), character by character
LowerChar(c) ==
    IF \E i \in 1..Len(UpperCase) : UpperCase[i] = c
      THEN LowerCase[CHOOSE i \in 1..Len(UpperCase) : UpperCase[i] = c]
      ELSE c
Lower(m) == [i \in 1..Len(m) |-> LowerChar(m[i])]

\* Texts of the exceptions the call is run against.
ErrorMessages ==
    { <<"4", "2", "9", " ", "T", "o", "o", " ", "M", "a", "n", "y",
        " ", "R", "e", "q", "u", "e", "s", "t", "s">>,
      <<"r", "a", "t", "e", "_", "l", "i", "m", "i", "t", "_", "e",
        "r", "r", "o", "r", ":", " ", "s", "l", "o", "w", " ", "d",
        "o", "w", "n">>,
      <<"R", "a", "t", "e", " ", "l", "i", "m", "i", "t", " ", "r",
        "e", "a", "c", "h", "e", "d", " ", "f", "o", "r", " ", "P",
        "D", "F", " ", "r", "e", "q", "u", "e", "s", "t", "s">>,
      <<"C", "o", "u", "l", "d", " ", "n", "o", "t", " ", "p", "r",
        "o", "c", "e", "s", "s", " ", "P", "D", "F">>,
      <<"R", "e", "q", "u", "e", "s", "t", " ", "t", "o", "o", " ",
        "l", "a", "r", "g", "e">>,
      <<"A", " ", "m", "a", "x", "i", "m", "u", "m", " ", "o", "f",
        " ", "1", "0", "0", " ", "P", "D", "F", " ", "p", "a", "g",
        "e", "s", " ", "m", "a", "y", " ", "b", "e", " ", "p", "r",
        "o", "v", "i", "d", "e", "d">>,
      <<"P", "r", "o", "m", "p", "t", " ", "s", "i", "z", "e", " ",
        "e", "x", "c", "e", "e", "d", "e", "d">>,
      <<"C", "o", "n", "n", "e", "c", "t", "i", "o", "n", " ", "r",
        "e", "s", "e", "t">>,
      <<"I", "n", "v", "a", "l", "i", "d", " ", "P", "D", "F">> }

\* Line 136
IsRateLimit(m) ==
    \/ Contains(m, <<"4", "2", "9">>)
    \/ Contains(Lower(m), <<"r", "a", "t", "e", "_", "l", "i", "m", "i", "t", "_", "e", "r", "r", "o", "r">>)
    \/ Contains(Lower(m), <<"r", "a", "t", "e", " ", "l", "i", "m", "i", "t">>)

\* Line 146
IsPdfError(m) ==
    \/ Contains(Lower(m), <<"c", "o", "u", "l", "d", " ", "n", "o", "t",
                          " ", "p", "r", "o", "c", "e", "s", "s", " ",
                          "p", "d", "f">>)
    \/ Contains(Lower(m), <<"p", "d", "f">>)

\* size_limit_keywords (line 151)
SizeLimitKeywords ==
    { <<"t", "o", "o", " ", "l", "a", "r", "g", "e">>,
      <<"l", "i", "m", "i", "t">>,
      <<"s", "i", "z", "e">>,
      <<"1", "0", "0", " ", "p", "d", "f", " ", "p", "a", "g", "e", "s">>,
      <<"m", "a", "x", "i", "m", "u", "m">>,
      <<"e", "x", "c", "e", "e", "d", "e", "d">> }

\* Line 152
IsSizeLimit(m) == \E k \in SizeLimitKeywords : Contains(Lower(m), k)

\* The except clause, lines 131-156: the checks in the order of the code.
HandleError(m) ==
    IF IsRateLimit(m) THEN "None"
    ELSE IF IsPdfError(m) THEN "PROCESS_INDIVIDUALLY"
    ELSE IF IsSizeLimit(m) THEN "None"
    ELSE "[]"

NoError == <<>>

\* Lines 4-129: the body of the try returns the parsed issues, returns []
\* without an API key, or raises.
BriefsCall ==
    /\ prog = "analyze_briefs_with_claude"
    /\ bpc \in {"call", "returned"}
    /\ \/ /\ \E v \in {"issues", "[]"} : briefs_result' = v
          /\ error_msg' = NoError
          /\ bpc' = "returned"
       \/ /\ \E m \in ErrorMessages : error_msg' = m
          /\ briefs_result' = "pending"
          /\ bpc' = "except"
    /\ UNCHANGED <<prog, fsVars, plannerVars, extractVars, asmVars, catVars, runVars>>

\* Lines 131-156: the exception is mapped to the value returned.
BriefsExcept ==
    /\ prog = "analyze_briefs_with_claude"
    /\ bpc = "except"
    /\ briefs_result' = HandleError(error_msg)
    /\ bpc' = "returned"
    /\ UNCHANGED <<prog, fsVars, plannerVars, extractVars, asmVars, catVars, runVars,
                   error_msg>>

BriefsNext == BriefsCall \/ BriefsExcept

BriefsInit ==
    /\ error_msg = NoError
    /\ briefs_result = "pending"
    /\ bpc = "call"

BriefsIdle ==
    /\ error_msg = NoError
    /\ briefs_result = "pending"
    /\ bpc = "idle"

RestIdle == AssemblerIdle /\ CatIdle /\ RunIdle /\ FolderIdle /\ BriefsIdle

----------------------------------------------------------------------------

PlannerInit ==
    /\ \E in \in PlannerInputs :
          /\ total_pages = in[1]
          /\ max_pages = in[2]
          /\ overlap = in[3]
    /\ start_page = 0
    /\ chunk_num = 0
    /\ chunks = <<>>
    /\ ppc = "call"

PlannerIdle ==
    /\ total_pages = 0
    /\ max_pages = DefaultMaxPages
    /\ overlap = DefaultOverlap
    /\ start_page = 0
    /\ chunk_num = 0
    /\ chunks = <<>>
    /\ ppc = "idle"

ExtractInit ==
    /\ num_pages \in 0..MaxDocPages
    /\ page_num = 0
    /\ behaviour = "text"
    /\ cpc = "idle"
    /\ running = {}
    /\ future = NoFuture
    /\ result = FreshResult
    /\ calls = 0

ExtractIdle ==
    /\ num_pages = 0
    /\ page_num = 0
    /\ behaviour = "text"
    /\ cpc = "idle"
    /\ running = {}
    /\ future = NoFuture
    /\ result = FreshResult
    /\ calls = 0

Init ==
    \/ prog = "create_pdf_chunks" /\ PlannerInit /\ ExtractIdle /\ RestIdle
    \/ prog = "test_pypdf2_extraction" /\ PlannerIdle /\ ExtractInit /\ RestIdle
    \/ /\ prog = "assemble"
       /\ PlannerIdle /\ ExtractIdle /\ AssemblerInit /\ CatIdle /\ RunIdle
       /\ FolderIdle /\ BriefsIdle
    \/ /\ prog = "concatenate_pdfs"
       /\ PlannerIdle /\ ExtractIdle /\ AssemblerIdle /\ CatInit /\ RunIdle
       /\ FolderIdle /\ BriefsIdle
    \/ /\ prog = "process_pdfs"
       /\ PlannerIdle /\ ExtractIdle /\ AssemblerIdle /\ CatIdle /\ RunInit
       /\ FolderIdle /\ BriefsIdle
    \/ /\ prog = "runs"
       /\ PlannerIdle /\ ExtractIdle /\ AssemblerIdle /\ CatIdle /\ RunIdle
       /\ FolderInit /\ BriefsIdle
    \/ /\ prog = "analyze_briefs_with_claude"
       /\ PlannerIdle /\ ExtractIdle /\ AssemblerIdle /\ CatIdle /\ RunIdle
       /\ FolderIdle /\ BriefsInit

Next ==
    \/ PlannerBegin
    \/ PlannerLoop
    \/ PlannerReturn
    \/ Call
    \/ Submit
    \/ WorkerFinish
    \/ ResultReady
    \/ DeadlineElapses
    \/ TimeoutHandled
    \/ BeginChunk
    \/ StartPage
    \/ \E o \in Outcomes : Attempt(o)
    \/ CommitPage
    \/ FinishChunk
    \/ CatBegin
    \/ CatAdd
    \/ CatWrite
    \/ CatWriteFails
    \/ AnalyzeCall
    \/ AnalyzeReturn
    \/ AnalyzeLoopExit
    \/ RunStart
    \/ Cleanup
    \/ Find
    \/ Concatenate
    \/ WriteChunks
    \/ AnalyzeChunks
    \/ WriteOutputs
    \/ LoadExisting
    \/ AnalyzeIndividual
    \/ BriefsCall
    \/ BriefsExcept

Spec == Init /\ [][Next]_vars

\* Both entry points run sequentially, so a step of the planner or of the
\* caller that can be taken is taken, and a pending timeout elapses.  The
\* worker's extraction has no such guarantee: WorkerFinish carries no
\* fairness, since the page may hang the parser for ever.
\* Every strategy execution of the extractor runs under a hard deadline, so
\* each attempt of the assembler ends and its next step is taken.
FairSpec ==
    /\ Init /\ [][Next]_vars
    /\ WF_vars(PlannerNext)
    /\ WF_vars(CallerNext)
    /\ WF_vars(AssemblerNext)

----------------------------------------------------------------------------
(* Properties of the chunk planner *)

\* A valid planner input: at least one page, a positive chunk size and an
\* overlap below it.
ValidInput ==
    /\ prog = "create_pdf_chunks"
    /\ total_pages >= 1
    /\ max_pages >= 1
    /\ 0 <= overlap
    /\ overlap < max_pages

\* The half-open range of plan i.
PlanRange(i) == Range(chunks[i].startPage, chunks[i].endPage)

Plans == [i \in 1..Len(chunks) |-> <<chunks[i].startPage, chunks[i].endPage>>]

\* C1: for every valid input the planning loop, once entered, reaches the
\* state in which it has ended with start_page >= total_pages; it does so
\* after finitely many plans.
C1_PlannerTerminates ==
    (ValidInput /\ ppc = "loop") ~> (ppc = "done" /\ start_page >= total_pages)

C1_Witness ==
    /\ ValidInput
    /\ ppc = "done"
    /\ start_page >= total_pages
    /\ Len(chunks) >= 3
    /\ overlap = max_pages - 1

\* C2: for every valid input the union of the ranges [startPage, endPage) of
\* the plans returned is exactly [0, total_pages), and the pages copied into
\* the chunks are exactly the pages of the document.
C2_PlansCoverDocument ==
    (ValidInput /\ ppc = "done") =>
        /\ UNION {PlanRange(i) : i \in 1..Len(chunks)} = Range(0, total_pages)
        /\ UNION {chunks[i].pages : i \in 1..Len(chunks)} = Range(0, total_pages)
        /\ \A i \in 1..Len(chunks) : chunks[i].pages = PlanRange(i)

C2_Witness ==
    /\ ValidInput
    /\ ppc = "done"
    /\ Len(chunks) >= 3
    /\ chunks[Len(chunks)].endPage - chunks[Len(chunks)].startPage < max_pages
    /\ overlap >= 1

\* The number of page indices two plans share.
Shared(i, j) == Cardinality(PlanRange(i) \cap PlanRange(j))

\* C3 (as claimed): for every valid input, every pair of consecutive plans
\* other than the pair ending in the final plan shares exactly overlap page
\* indices: the next plan starts at the previous end minus overlap and does
\* not end before the previous one.
C3_ConsecutiveOverlapExact ==
    (ValidInput /\ ppc = "done") =>
        \A i \in 1..(Len(chunks) - 2) :
            /\ chunks[i + 1].startPage = chunks[i].endPage - overlap
            /\ chunks[i].endPage <= chunks[i + 1].endPage
            /\ Shared(i, i + 1) = overlap

\* C4 (as claimed): with overlap >= max_pages on a document longer than one
\* chunk the planner produces no plan and never enters the planning loop; it
\* ends in a configuration error.
C4_InvalidOverlapRejected ==
    (prog = "create_pdf_chunks" /\ overlap >= max_pages /\ total_pages > max_pages) =>
        /\ chunks = <<>>
        /\ ppc \in {"call", "ConfigurationError"}

\* C5: total_pages = 250, max_pages = 100, overlap = 10 gives exactly the
\* plans (0,100), (90,190), (180,250) in this order, and never a fourth.
C5_Scenario250 ==
    (prog = "create_pdf_chunks" /\ total_pages = 250 /\ max_pages = 100 /\ overlap = 10) =>
        /\ Len(chunks) <= 3
        /\ ppc = "done" => Plans = << <<0, 100>>, <<90, 190>>, <<180, 250>> >>

C5_Witness ==
    /\ prog = "create_pdf_chunks"
    /\ total_pages = 250 /\ max_pages = 100 /\ overlap = 10
    /\ ppc = "done"
    /\ Len(chunks) = 3

\* C6: whenever total_pages <= max_pages, whatever the overlap, the planner
\* returns exactly one plan, the whole document (0, total_pages), and it is
\* the document itself.
C6_SinglePlan ==
    (prog = "create_pdf_chunks" /\ total_pages <= max_pages /\ ppc # "call") =>
        /\ ppc = "done"
        /\ Plans = << <<0, total_pages>> >>
        /\ chunks[1].pages = Range(0, total_pages)
        /\ chunks[1].file[1] = "pdf_path"

C6_Witness ==
    /\ prog = "create_pdf_chunks"
    /\ ppc = "done"
    /\ total_pages = max_pages
    /\ overlap >= max_pages
    /\ Len(chunks) = 1

\* C7: for every valid input, every plan emitted so far, at every iteration
\* of the loop, has 0 <= startPage < endPage <= total_pages and at most
\* max_pages pages.
C7_PlanBounds ==
    ValidInput =>
        \A i \in 1..Len(chunks) :
            /\ 0 <= chunks[i].startPage
            /\ chunks[i].startPage < chunks[i].endPage
            /\ chunks[i].endPage <= total_pages
            /\ chunks[i].endPage - chunks[i].startPage <= max_pages

C7_Witness ==
    /\ ValidInput
    /\ ppc = "loop"
    /\ Len(chunks) >= 2
    /\ start_page = total_pages

\* C8 (as claimed): on a document longer than one chunk each plan after the
\* first starts at the previous end minus overlap, and the planner stops
\* exactly when the start computed this way, previous end minus overlap, is
\* >= total_pages.
C8_StopsAtPreviousEndMinusOverlap ==
    (ValidInput /\ total_pages > max_pages /\ ppc = "done") =>
        /\ \A i \in 1..(Len(chunks) - 1) :
               chunks[i + 1].startPage = chunks[i].endPage - overlap
        /\ chunks[Len(chunks)].endPage - overlap >= total_pages

\* C8 (amended): on a document longer than one chunk each plan after the
\* first starts at the previous start plus max_pages - overlap, which is the
\* previous end minus overlap whenever the previous plan is not cut short by
\* the end of the document; the loop is left exactly when the start computed
\* this way is >= total_pages: every plan emitted starts below total_pages
\* and the start after the last one does not.
C8_StopsAtPreviousStartPlusStep ==
    (prog = "create_pdf_chunks" /\ total_pages > max_pages /\ ppc # "call") =>
        /\ \A i \in 1..(Len(chunks) - 1) :
               /\ chunks[i + 1].startPage
                     = chunks[i].startPage + max_pages - overlap
               /\ chunks[i].endPage = chunks[i].startPage + max_pages
                     => chunks[i + 1].startPage = chunks[i].endPage - overlap
        /\ \A i \in 1..Len(chunks) : chunks[i].startPage < total_pages
        /\ chunks # <<>> =>
               start_page = chunks[Len(chunks)].startPage + max_pages - overlap
        /\ ppc = "done" => (chunks # <<>> /\ start_page >= total_pages)

C8_Witness ==
    /\ ValidInput
    /\ total_pages > max_pages
    /\ ppc = "done"
    /\ Len(chunks) >= 3
    /\ overlap >= 1
    /\ chunks[Len(chunks)].endPage - overlap < total_pages

\* C24 (as claimed): on a document longer than one chunk, with an overlap
\* below the chunk size, every chunk after the first holds a page that no
\* earlier chunk holds; no chunk lies wholly inside the chunks before it.
C24_EveryChunkAddsAPage ==
    (ValidInput /\ total_pages > max_pages) =>
        \A i \in 2..Len(chunks) :
            \E n \in PlanRange(i) :
                \A j \in 1..(i - 1) : n \notin PlanRange(j)

----------------------------------------------------------------------------
(* Properties of the timed extraction *)

\* The extraction of the current call has outlived its deadline.
TimedOutAndRunning == cpc = "executor_exit" /\ calls \in running

\* C9 (as claimed): once the deadline has elapsed the caller no longer waits
\* for the extraction: it is never held back by an extraction that has not
\* finished.
C9_CallerNeverWaitsPastDeadline == ~TimedOutAndRunning

\* C10 (as claimed): an extraction that outlives its deadline is cancelled:
\* it is stopped whether or not the page lets the parser come to an end.
C10_TimedOutUnitIsCancelled == TimedOutAndRunning ~> (calls \notin running)

----------------------------------------------------------------------------
(* Properties of the extractor, the circuit breaker and the assembler *)

Extracting == prog = "assemble" /\ state # "Idle"

StrategiesTried == {attempts[i].strategy : i \in 1..Len(attempts)}

AllAttemptsEmpty == \A i \in 1..Len(attempts) : attempts[i].outcome = "EmptyResult"

\* The attempts of a page follow the tier order strictly: no strategy is
\* attempted twice.
NoStrategyRetried ==
    \A i, j \in 1..Len(attempts) :
        i < j => \E a, b \in 1..3 :
                    /\ Strategies[a] = attempts[i].strategy
                    /\ Strategies[b] = attempts[j].strategy
                    /\ a < b

\* C11: a page on which every strategy attempted returns an empty result
\* reaches Done, after at most one attempt per strategy, with empty text and
\* its index in the chunk's failure set; the extractor never stays in a
\* Trying state for ever.
C11_EmptyPageEndsFailed ==
    /\ [](Extracting => /\ NoStrategyRetried
                        /\ Len(attempts) <= 3
                        /\ (state = "Done" /\ AllAttemptsEmpty)
                              => (pageText = <<>> /\ page \in pageFailures))
    /\ (Extracting /\ state \in TryingStates) ~> (state = "Done")

C11_Witness ==
    /\ Extracting
    /\ state = "Done"
    /\ Len(attempts) = 3
    /\ AllAttemptsEmpty
    /\ page \in pageFailures

\* C12: on a page whose verdict is EarlyPageOfReport the extractor is never
\* in TryingPrimary and no Primary attempt is made, whatever the circuit
\* state and the outcomes of the other strategies.
C12_EarlyPageSkipsPrimary ==
    (Extracting /\ Verdict = "EarlyPageOfReport") =>
        /\ state # "TryingPrimary"
        /\ "Primary" \notin StrategiesTried

C12_Witness ==
    /\ Extracting
    /\ Verdict = "EarlyPageOfReport"
    /\ circuit["Secondary"] >= CircuitBreakerThreshold
    /\ state = "Done"
    /\ StrategiesTried = {"OCR"}

\* C13: once the failure count of a strategy has reached the threshold in a
\* chunk, no page of that chunk attempts the strategy again, so the count
\* never passes the threshold; and a chunk starts with all counts zero.
C13_DisabledForRestOfChunk ==
    Extracting =>
        /\ \A i \in 1..3 :
              /\ circuit[Strategies[i]] <= CircuitBreakerThreshold
              /\ circuit[Strategies[i]] >= CircuitBreakerThreshold
                    => state # Trying(i)
        /\ (state = "NotStarted" /\ page = plans[chunkId].startPage)
              => circuit = FreshCircuit

C13_Witness ==
    /\ Extracting
    /\ chunkId = 2
    /\ <<1, "Secondary">> \in tripped
    /\ state = "TryingSecondary"
    /\ Verdict = "KnownPattern"

\* The page texts of a chunk text, without the separators.
PagesOf(t) == SelectSeq(t, LAMBDA x : x # Separator)

\* A chunk text is page texts with one separator between neighbours.
WellSeparated(t) ==
    /\ t # <<>> => Len(t) % 2 = 1
    /\ \A i \in 1..Len(t) : (t[i] = Separator) <=> (i % 2 = 0)

Ascending(q) == \A i, j \in 1..Len(q) : i < j => q[i] < q[j]

\* t is the concatenation, in ascending page order, of the texts of pages P.
IsTextOf(t, P) ==
    /\ WellSeparated(t)
    /\ Ascending(PagesOf(t))
    /\ {PagesOf(t)[i] : i \in 1..Len(PagesOf(t))} = P

\* C14: the text of a chunk is the concatenation, in ascending page order,
\* of the non-empty final texts of its pages, whichever strategy produced
\* them; pages with empty final text contribute nothing.
C14_ChunkTextInPageOrder ==
    /\ Extracting =>
          IsTextOf(text, {n \in DOMAIN strategyUsedPerPage : n < page})
    /\ \A i \in 1..Len(results) :
          /\ IsTextOf(results[i].text, DOMAIN results[i].strategyUsedPerPage)
          /\ DOMAIN results[i].strategyUsedPerPage =
                Range(results[i].plan.startPage, results[i].plan.endPage)
                    \ results[i].pageFailures

C14_Witness ==
    /\ prog = "assemble"
    /\ Len(results) >= 1
    /\ results[1].text = <<0, Separator, 2, Separator, 3>>
    /\ results[1].strategyUsedPerPage[0] = "OCR"
    /\ results[1].strategyUsedPerPage[2] = "Primary"
    /\ results[1].strategyUsedPerPage[3] = "Secondary"

\* C15: a chunk none of whose pages yields text still produces its
\* ChunkResult, with empty text and every page of its range in
\* pageFailures; every chunk begun before it has its result too.
C15_EmptyChunkStillYieldsResult ==
    prog = "assemble" =>
        /\ Len(results) = chunkId - 1
        /\ \A i \in 1..Len(results) :
              /\ results[i].plan = plans[i]
              /\ DOMAIN results[i].strategyUsedPerPage = {}
                    => /\ results[i].text = <<>>
                       /\ results[i].pageFailures =
                             Range(plans[i].startPage, plans[i].endPage)

C15_Witness ==
    /\ prog = "assemble"
    /\ Len(results) = 2
    /\ results[1].text = <<>>
    /\ results[1].pageFailures = {0, 1, 2, 3}
    /\ results[2].text # <<>>

\* The current page began after Secondary was disabled for the chunk.
SecondaryBrokenBeforePage ==
    /\ circuit["Secondary"] >= 3
    /\ "Secondary" \notin StrategiesTried

\* C16 (as claimed): with threshold 3, a page of a known-bad document never
\* tries Primary; once Secondary has failed on 3 pages of the chunk, a later
\* such page makes no Secondary attempt and its first attempt is OCR.
C16_FourthPageStartsAtOCR ==
    (Extracting /\ CircuitBreakerThreshold = 3 /\ Verdict = "KnownPattern") =>
        /\ state # "TryingPrimary"
        /\ "Primary" \notin StrategiesTried
        /\ circuit["Secondary"] >= 3 => state # "TryingSecondary"
        /\ (SecondaryBrokenBeforePage /\ state = "Done")
              => (attempts # <<>> /\ attempts[1].strategy = "OCR")

\* C16 (amended): as claimed, except that the first attempt of the later
\* page is OCR only if it makes an attempt: when OCR is itself disabled for
\* the chunk or unavailable the page makes no attempt and ends failed.
C16_FourthPageStartsAtOCRIfAny ==
    (Extracting /\ CircuitBreakerThreshold = 3 /\ Verdict = "KnownPattern") =>
        /\ state # "TryingPrimary"
        /\ "Primary" \notin StrategiesTried
        /\ circuit["Secondary"] >= 3 => state # "TryingSecondary"
        /\ (SecondaryBrokenBeforePage /\ state = "Done") =>
              IF attempts # <<>>
                THEN attempts[1].strategy = "OCR"
                ELSE /\ circuit["OCR"] >= 3 \/ ~ocrAvailable
                     /\ pageText = <<>>
                     /\ page \in pageFailures

C16_Witness ==
    /\ Extracting
    /\ Verdict = "KnownPattern"
    /\ page = 3
    /\ circuit["Secondary"] = 3
    /\ circuit["OCR"] = 0
    /\ state = "Done"
    /\ Len(attempts) = 1
    /\ attempts[1].strategy = "OCR"

\* The step is an attempt of strategy sigma that ended with outcome o.
AttemptStep(sigma, o) ==
    /\ prog = "assemble"
    /\ state \in TryingStates
    /\ attempts' = Append(attempts, [strategy |-> sigma, outcome |-> o])

\* C23: an attempt ending in EmptyResult (or Success) leaves every
\* circuit-breaker counter as it was and, when empty, moves the extractor
\* off the strategy; an attempt ending in Timeout or Error adds one to the
\* counter of its strategy and to no other.  So a chunk in which nothing but
\* EmptyResult occurs keeps all its counters at 0 and disables no strategy.
C23_EmptyResultLeavesCircuitAlone ==
    [][\A sigma \in {"Primary", "Secondary", "OCR"} :
          /\ AttemptStep(sigma, "EmptyResult") =>
                /\ circuit' = circuit
                /\ tripped' = tripped
                /\ state' # state
                /\ state' \in TryingStates => TierOf(state') > TierOf(state)
          /\ AttemptStep(sigma, "Success") => circuit' = circuit
          /\ \A o \in {"Timeout", "Error"} :
                AttemptStep(sigma, o) =>
                    circuit' = [circuit EXCEPT ![sigma] = circuit[sigma] + 1]
    ]_vars

\* Several blank pages in a row, more than the threshold, and no counter
\* has moved.
C23_Witness ==
    /\ prog = "assemble"
    /\ state \in TryingStates
    /\ Len(attempts) > 0
    /\ \A k \in 1..Len(attempts) : attempts[k].outcome = "EmptyResult"
    /\ Cardinality(pageFailures) >= CircuitBreakerThreshold
    /\ circuit = FreshCircuit
    /\ tripped = {}

----------------------------------------------------------------------------
(* Properties of concatenate_pdfs *)

PageRefsOf(q) == {<<q[i].doc, q[i].local>> : i \in 1..Len(q)}

AllPagesOfDoc(d) == {<<d, k>> : k \in 0..(pdf_files[d].pages - 1)}

\* C17 (as claimed): with several input documents, every file is visited
\* and the document returned holds all pages of every document that loaded,
\* so that every page left out belongs to a document that failed to load;
\* also when writing the merged document fails.
C17_LoadedDocumentsAllContribute ==
    (prog = "concatenate_pdfs" /\ catpc = "done" /\ Len(pdf_files) > 1) =>
        /\ file_index = Len(pdf_files) + 1
        /\ \A d \in 1..Len(pdf_files) :
              pdf_files[d].load = "ok"
                  => AllPagesOfDoc(d) \subseteq PageRefsOf(concatenated.pages)

\* C18: in the merged sequence the global index of the page at position i is
\* i - 1, and pages are ordered by document in load order and, within a
\* document, by local index; so no page occurs twice, also when a document
\* is added page by page.
C18_MergedPagesInLoadOrder ==
    prog = "concatenate_pdfs" =>
        /\ \A i \in 1..Len(merger) : merger[i].global = i - 1
        /\ \A i, j \in 1..Len(merger) :
              i < j => \/ merger[i].doc < merger[j].doc
                       \/ /\ merger[i].doc = merger[j].doc
                          /\ merger[i].local < merger[j].local
        /\ \A i \in 1..Len(merger) :
              /\ merger[i].doc \in 1..(file_index - 1)
              /\ merger[i].local \in 0..(pdf_files[merger[i].doc].pages - 1)
        /\ concatenated.kind = "merged" => concatenated.pages = merger

C18_Witness ==
    /\ prog = "concatenate_pdfs"
    /\ catpc = "done"
    /\ concatenated.kind = "merged"
    /\ Len(pdf_files) = 3
    /\ pdf_files[2].load = "pagewise"
    /\ pdf_files[2].pages = 2
    /\ PageRefsOf(merger) = {<<1, 0>>, <<2, 1>>, <<3, 0>>}

\* C21 (as claimed): no page of an input document is left out of the
\* document handed on without being named as left out: when
\* concatenate_pdfs has returned, every page of every input file is in the
\* returned document or among the reported pages.
C21_NoPageDroppedSilently ==
    (prog = "concatenate_pdfs" /\ catpc = "done") =>
        \A d \in 1..Len(pdf_files) :
            AllPagesOfDoc(d) \subseteq
                (PageRefsOf(concatenated.pages) \cup reported)

----------------------------------------------------------------------------
(* Properties of page requests *)

\* The page asked of test_pypdf2_extraction does not exist.
PageOutOfBounds == page_num < 0 \/ page_num >= num_pages

RangeErrors == {"Page number out of range", "sequence index out of range"}

\* C22 (as claimed): a request for a page whose index is out of bounds ends
\* with a page-range error; it is never answered with the text of a page.
C22_OutOfBoundsPageFails ==
    (prog = "test_pypdf2_extraction" /\ cpc = "returned" /\ PageOutOfBounds
        /\ ~result.pypdf2_timeout) =>
        /\ result.pypdf2_error \in RangeErrors
        /\ result.pypdf2_extraction_time = "None"

----------------------------------------------------------------------------
(* Properties of the chunk analysis loop *)

\* Summary s is the outcome of analysing the k-th chunk.
IsSummaryOfChunk(s, k) ==
    \/ s = <<"summary", chunk_paths[k]>>
    \/ s = <<"error", k>>

\* C19 (as claimed): a failure while processing one chunk never keeps the
\* later chunks from being processed: the run is never aborted in the loop
\* and, when a chunk has failed, every chunk 1..n still gets its entry.
C19_FailedChunkDoesNotStopRun ==
    prog = "process_pdfs" =>
        /\ runpc # "aborted"
        /\ runpc = "generate" =>
              /\ Len(chunk_summaries) = Len(chunk_paths)
              /\ \A k \in 1..Len(chunk_paths) :
                    IsSummaryOfChunk(chunk_summaries[k], k)

\* C20: results come in plan order and one chunk at a time: the i-th result
\* is that of the i-th chunk, and the chunk being analysed is the one after
\* the last result, so no chunk is begun before its predecessor has its
\* result.
C20_ResultsInPlanOrder ==
    prog = "process_pdfs" =>
        /\ \A k \in 1..Len(chunk_summaries) :
              IsSummaryOfChunk(chunk_summaries[k], k)
        /\ runpc \in {"loop", "analyzing"} => Len(chunk_summaries) = loop_i - 1
        /\ runpc = "analyzing" =>
              /\ request.chunk_num = Len(chunk_summaries) + 1
              /\ request.chunk_path = chunk_paths[Len(chunk_summaries) + 1]

C20_Witness ==
    /\ prog = "process_pdfs"
    /\ runpc = "analyzing"
    /\ request.chunk_num = 3
    /\ Len(chunk_summaries) = 2
    /\ chunk_summaries[1][1] = "summary"
    /\ chunk_summaries[2][1] = "error"

----------------------------------------------------------------------------
(* Properties of the files of the folder *)

\* C26 (as claimed): whatever _cleanup_previous_outputs deletes is a name
\* find_pdf_files would not return as an original PDF; a run deletes no
\* original input document.
C26_CleanupDeletesOnlyGenerated ==
    prog = "runs" => \A n \in removed : ~IsOriginalPdf(n)

\* C27 (as claimed): every PDF a run writes is a name find_pdf_files
\* excludes, and every run on the folder discovers the original PDFs the
\* first run discovered.
C27_DiscoveryStableOverRuns ==
    prog = "runs" =>
        /\ \A n \in written : GlobMatches(n, PdfGlob) => ~IsOriginalPdf(n)
        /\ \A k \in 1..Len(discovered) : discovered[k] = discovered[1]

\* C28: a run in individual-only mode deletes nothing, writes nothing but
\* individual summaries of the documents it found (no overall file, no chunk,
\* no concatenated document), analyses a document only if the three overall
\* PDFs were there, and leaves the folder as it was when one was missing.
C28_IndividualOnlyFrame ==
    (prog = "runs" /\ individual_only) =>
        /\ removed = {}
        /\ written \subseteq {IndividualSummaryName(n) : n \in original_pdfs}
        /\ written \cap (OverallPdfs \cup OverallTxts) = {}
        /\ \A n \in written : ~IsPrefix(<<"c", "h", "u", "n", "k", "_">>, n)
        /\ ConcatenatedDocument \notin written
        /\ analysed # {} => OverallPdfs \subseteq folder_before
        /\ ~(OverallPdfs \subseteq folder_before) => folder = folder_before

\* An individual-only run has written summaries; another has ended at once
\* because an overall PDF was missing.
C28_Witness ==
    /\ prog = "runs"
    /\ individual_only
    /\ fpc = "done"
    /\ \/ /\ Cardinality(written) >= 2
          /\ Cardinality(analysed) >= 2
       \/ /\ runs = 2
          /\ original_pdfs # {}
          /\ Cardinality(OverallPdfs \cap folder_before) = 2
          /\ analysed = {}

----------------------------------------------------------------------------
(* Properties of analyze_briefs_with_claude *)

\* The message is that of a failure to process a PDF.
IsPdfProcessingError(m) == Contains(Lower(m), <<"c", "o", "u", "l", "d", " ", "n", "o", "t",
                          " ", "p", "r", "o", "c", "e", "s", "s", " ",
                          "p", "d", "f">>)

\* C29 (as claimed): when the call has raised, the value returned goes by
\* the kind of the error: None for a rate-limit error, None for a size-limit
\* error (a message holding one of the size keywords, "100 pdf pages" among
\* them), "PROCESS_INDIVIDUALLY" for a PDF-processing error, and [] for any
\* other error; the function always returns.
C29_ErrorKindsMapped ==
    (prog = "analyze_briefs_with_claude" /\ bpc = "returned"
        /\ error_msg # NoError) =>
        /\ IsRateLimit(error_msg) => briefs_result = "None"
        /\ (~IsRateLimit(error_msg) /\ IsSizeLimit(error_msg))
              => briefs_result = "None"
        /\ (~IsRateLimit(error_msg) /\ ~IsSizeLimit(error_msg)
              /\ IsPdfProcessingError(error_msg))
              => briefs_result = "PROCESS_INDIVIDUALLY"
        /\ (~IsRateLimit(error_msg) /\ ~IsSizeLimit(error_msg)
              /\ ~IsPdfError(error_msg))
              => briefs_result = "[]"

====
